---- MODULE Spec2Model ----
(***************************************************************************)
(* Selection engine of code2prompt: the session's override bookkeeping     *)
(* (crates/code2prompt-core/src/session.rs) over the inclusion resolver    *)
(* and glob matcher of crate::filter and the batch traversal of            *)
(* crate::path.                                                            *)
(*                                                                         *)
(* Text (paths, glob patterns) is a sequence of one-character strings, so  *)
(* that prefix stripping and glob matching are computed, not assumed.      *)
(***************************************************************************)
EXTENDS Integers, Sequences, FiniteSets, TLC

\* ------------------------------------------------------------------ bounds

\* Longest include / exclude pattern list the model explores.
MaxPatterns == 2

\* Cap of the per-directory count of successful listings.
MaxReads == 2

\* Longest search query drawn.
MaxQueryLen == 4

\* Longest value typed into the variable input.
MaxInputLen == 1

\* Largest file or token count shown by the statistics overview.
MaxCount == 2

\* ------------------------------------------------------------------- texts

\* config.path: the root the session browses (an absolute directory).
Root == <<"/", "r">>

RelA == <<"a", ".", "t", "x", "t">>
RelB == <<"b", ".", "l", "o", "g">>
AbsA == Root \o <<"/">> \o RelA
AbsB == Root \o <<"/">> \o RelB

\* The files the batch traversal finds under Root, in traversal order.
FilesOnDisk == <<AbsA, AbsB>>

\* Paths a caller hands to the session: absolute (as the tree view does) and
\* already root-relative.
InputPaths == {AbsA, AbsB, RelA, RelB}

PatTxt == <<"*", ".", "t", "x", "t">>
PatB   == <<"b", "*">>

\* A glob string that does not compile: an unclosed character class.
PatBad == <<"[">>

\* Glob strings a caller appends to the pattern lists.
InputPatterns == {PatTxt, PatB}

NoArg == <<>>

\* Option::None of SessionData.files / SessionData.source_tree.
None == "None"

\* ------------------------------------------------------------- pure helpers

IsPrefix(pre, s) ==
  /\ Len(pre) <= Len(s)
  /\ SubSeq(s, 1, Len(pre)) = pre

\* Path::strip_prefix(&config.path).unwrap_or(path): component-wise, so the
\* prefix must be followed by a separator (or be the whole path).
StripPrefix(path) ==
  IF path = Root THEN <<>>
  ELSE IF IsPrefix(Root \o <<"/">>, path)
       THEN SubSeq(path, Len(Root) + 2, Len(path))
       ELSE path

\* One glob against a text: '*' matches any run of characters, every other
\* character matches itself.
RECURSIVE GlobMatchFrom(_, _, _, _)
GlobMatchFrom(pat, i, text, j) ==
  IF i > Len(pat) THEN j > Len(text)
  ELSE IF pat[i] = "*"
       THEN \E k \in j..(Len(text) + 1) : GlobMatchFrom(pat, i + 1, text, k)
       ELSE /\ j <= Len(text)
            /\ text[j] = pat[i]
            /\ GlobMatchFrom(pat, i + 1, text, j + 1)

GlobMatch(pat, text) == GlobMatchFrom(pat, 1, text, 1)

\* Glob syntax: a '[' must be closed by a later ']'.
IsValidGlob(pat) ==
  \A i \in DOMAIN pat :
    pat[i] = "[" => \E j \in (i + 1)..Len(pat) : pat[j] = "]"

\* build_globset: the compiled matcher of an ordered pattern list, a pure
\* function of the list (rebuilt on every call of is_file_included).
BuildGlobset(patterns) == {patterns[i] : i \in DOMAIN patterns}

GlobsetIsEmpty(gs) == gs = {}

GlobsetIsMatch(gs, text) == \E pat \in gs : GlobMatch(pat, text)

\* should_include_path: the inclusion resolver's precedence rules.
ShouldIncludePath(rel_path, include_gs, exclude_gs, expl_inc, expl_exc) ==
  IF rel_path \in expl_exc THEN FALSE
  ELSE IF rel_path \in expl_inc THEN TRUE
  ELSE LET inc_empty == GlobsetIsEmpty(include_gs)
           inc_match == GlobsetIsMatch(include_gs, rel_path)
           exc_match == GlobsetIsMatch(exclude_gs, rel_path)
       IN  IF exc_match /\ (~inc_match \/ inc_empty) THEN FALSE
           ELSE IF inc_match \/ inc_empty THEN TRUE
           ELSE FALSE

\* ------------------------------------------------------------------- state

VARIABLES
  include_patterns,   \* config.include_patterns: Vec<String>
  exclude_patterns,   \* config.exclude_patterns: Vec<String>
  explicit_includes,  \* config.explicit_includes: set of root-relative paths
  explicit_excludes,  \* config.explicit_excludes: set of root-relative paths
  data,               \* SessionData: source_tree and files, None until loaded
  last,               \* the last call made on the session
  prev                \* the call before it, when it had the same argument

\* FileTreeState (crates/code2prompt/src/model/file_tree.rs) and the calls
\* made on it.
VARIABLES
  file_tree,          \* FileTreeState.file_tree: the root-level nodes
  read_count,         \* per directory, the listings read successfully so far
  tlast,              \* the last call made on the tree
  search_query,       \* FileTreeState.search_query
  visible             \* the nodes the last get_visible_nodes returned, each
                      \* reference given as the path of its node

\* VariableState (crates/code2prompt/src/model/template/variable.rs), what
\* the statistics overview reads of the Model, and what it draws.
VARIABLES
  variables,          \* the VariableState
  vlast,              \* the last call made on the VariableState
  prompt_output,      \* Model.prompt_output: the fields the overview reads
  counts,             \* the selected and eligible file counts it is given
  rendered            \* what the last render drew: <<>> before any, else
                      \* one record

configVars == <<include_patterns, exclude_patterns, explicit_includes, explicit_excludes>>
treeVars == <<file_tree, read_count, tlast, search_query, visible>>
viewVars == <<variables, vlast, prompt_output, counts, rendered>>
vars == <<include_patterns, exclude_patterns, explicit_includes, explicit_excludes,
          data, last, prev, file_tree, read_count, tlast, search_query, visible,
          variables, vlast, prompt_output, counts, rendered>>

\* A call record: the operation, its argument (a path or a pattern), the
\* decision is_file_included gave for the argument on the state the call
\* started in (for the two operations that ask for it: toggle_file, and
\* is_file_included itself, where it is the value returned) and whether the
\* call returned Ok.
Call(op, arg, was, ok) == [op |-> op, arg |-> arg, was |-> was, ok |-> ok]

NoCall == Call("new", NoArg, FALSE, TRUE)

\* The directory tree on disk under the browsed root. A path is its sequence
\* of components, a component (a file name) a sequence of characters.
TRoot == << <<"r">> >>
PathD == TRoot \o << <<"d">> >>
PathA == TRoot \o << <<"a">> >>
PathE == PathD \o << <<"e">> >>
PathB == PathD \o << <<"b">> >>
PathC == PathD \o << <<"c">> >>
PathF == PathE \o << <<"f">> >>

\* Paths the tree operations are called with.
TreePaths == {PathD, PathA, PathE, PathB, PathC, PathF}

\* Path::is_dir on this disk.
IsDir(path) == path \in {TRoot, PathD, PathE}

\* std::fs::read_dir: the entries of a directory in the order the operating
\* system yields them (not sorted).
ReadDir(path) ==
  CASE path = TRoot -> <<PathA, PathD>>
    [] path = PathD -> <<PathC, PathE, PathB>>
    [] path = PathE -> <<PathF>>
    [] OTHER        -> <<>>

\* What a directory listing started by one call can do: succeed, fail when
\* the directory is opened, fail at one of its entries.
IoOutcomes == {"ok", "open_err", "entry_err"}

\* A call on the tree: the operation, the path it names, the selected and
\* is_directory arguments (update_node_selection only), what it returned
\* ("Ok", or the io::Error of a listing) and how many directories it listed.
TreeCall(op, path, selected, is_directory, res, reads) ==
  [op |-> op, path |-> path, selected |-> selected,
   is_directory |-> is_directory, res |-> res, reads |-> reads]

NoTreeCall == TreeCall("default", <<>>, FALSE, FALSE, "Ok", 0)

\* FileTreeState::default(): no tree yet.
TreeDefault ==
  /\ file_tree = <<>>
  /\ read_count = [p \in TreePaths |-> 0]
  /\ tlast = NoTreeCall
  /\ search_query = <<>>
  /\ visible = <<>>

\* The names template variables are drawn from: a system variable and two
\* others, in the order String::cmp gives them.
VarNames == <<"files", "name", "title">>

VarNameSet == {VarNames[k] : k \in DOMAIN VarNames}

\* VariableState::get_default_system_variables
DefaultSystemVariables ==
  [n \in {"absolute_code_path", "source_tree", "files", "git_diff",
          "git_diff_branch", "git_log_branch", "path", "code", "extension",
          "token_count", "metadata", "mod_time"} |->
     CASE n = "absolute_code_path" -> "Path to the codebase directory"
       [] n = "source_tree"        -> "Directory tree structure"
       [] n = "files"              -> "Array of file objects with content"
       [] n = "git_diff"           -> "Git diff output (if enabled)"
       [] n = "git_diff_branch"    -> "Git diff between branches"
       [] n = "git_log_branch"     -> "Git log between branches"
       [] n = "path"               -> "File path (available in {{#each files}} context)"
       [] n = "code"               -> "File content (available in {{#each files}} context)"
       [] n = "extension"          -> "File extension (available in {{#each files}} context)"
       [] n = "token_count"        -> "Token count for file (available in {{#each files}} context)"
       [] n = "metadata"           -> "File metadata (available in {{#each files}} context)"
       [] OTHER                    -> "File modification time (available in {{#each files}} context)"]

\* The empty HashMap.
EmptyMap == [n \in {} |-> <<>>]

\* VariableState::default()
VariableStateDefault ==
  [system_variables |-> DefaultSystemVariables,
   user_variables |-> EmptyMap,
   missing_variables |-> <<>>,
   cursor |-> 0,
   editing_variable |-> None,
   variable_input_content |-> <<>>,
   show_variable_input |-> FALSE]

\* A call on the VariableState: the operation, the template variables it
\* was given and what it returned.
VarCall(op, template_variables, result) ==
  [op |-> op, template_variables |-> template_variables, result |-> result]

NoVarCall == VarCall("default", <<>>, None)

\* No prompt generated, no analysis running or failed, nothing counted. An
\* Option<usize> is <<>> or <<n>>.
PromptOutputDefault ==
  [generated_prompt |-> None, analysis_in_progress |-> FALSE,
   analysis_error |-> None, token_count |-> <<>>, file_count |-> 0]

\* The template variables and the statistics overview before they are used.
ViewDefault ==
  /\ variables = VariableStateDefault
  /\ vlast = NoVarCall
  /\ prompt_output = PromptOutputDefault
  /\ counts = [selected_count |-> 0, eligible_count |-> 0]
  /\ rendered = <<>>

\* ----------------------------------------------------------------- queries

\* is_file_included with both globsets compiled from the include list.
IsFileIncluded_SameGlobset(path) ==
  ShouldIncludePath(StripPrefix(path), BuildGlobset(include_patterns),
                    BuildGlobset(include_patterns),
                    explicit_includes, explicit_excludes)

\* is_file_included with the two globsets handed over in the wrong order.
IsFileIncluded_SwappedGlobsets(path) ==
  ShouldIncludePath(StripPrefix(path), BuildGlobset(exclude_patterns),
                    BuildGlobset(include_patterns),
                    explicit_includes, explicit_excludes)

\* is_file_included with the two override sets handed over in the wrong order.
IsFileIncluded_SwappedOverrides(path) ==
  ShouldIncludePath(StripPrefix(path), BuildGlobset(include_patterns),
                    BuildGlobset(exclude_patterns),
                    explicit_excludes, explicit_includes)

\* is_file_included looking the path up as given, without strip_prefix.
IsFileIncluded_NoStrip(path) ==
  ShouldIncludePath(path, BuildGlobset(include_patterns),
                    BuildGlobset(exclude_patterns),
                    explicit_includes, explicit_excludes)

\* is_file_included deciding with the include matcher compiled before the
\* last pattern was appended to the list.
IsFileIncluded_StaleGlobset(path) ==
  ShouldIncludePath(StripPrefix(path),
                    BuildGlobset(SubSeq(include_patterns, 1, Len(include_patterns) - 1)),
                    BuildGlobset(exclude_patterns),
                    explicit_includes, explicit_excludes)

\* Code2PromptSession::is_file_included
IsFileIncluded(path) ==
  LET rel_path   == StripPrefix(path)
      include_gs == BuildGlobset(include_patterns)
      exclude_gs == BuildGlobset(exclude_patterns)
  IN  ShouldIncludePath(rel_path, include_gs, exclude_gs,
                        explicit_includes, explicit_excludes)

\* traverse_directory(&config): the batch pass over the files under Root,
\* keeping those the resolver includes, in traversal order.
TraverseDirectory ==
  LET Keep(f) == ShouldIncludePath(StripPrefix(f),
                                   BuildGlobset(include_patterns),
                                   BuildGlobset(exclude_patterns),
                                   explicit_includes, explicit_excludes)
  IN  SelectSeq(FilesOnDisk, Keep)

\* ------------------------------------------------------------- operations

\* include_file without the removal from explicit_excludes.
include_file_KeepsExclude(path) ==
  /\ explicit_includes' = explicit_includes \cup {StripPrefix(path)}
  /\ UNCHANGED <<explicit_excludes, include_patterns, exclude_patterns, data>>

\* include_file dropping every explicit exclusion.
include_file_ClearsExcludes(path) ==
  /\ explicit_excludes' = {}
  /\ explicit_includes' = explicit_includes \cup {StripPrefix(path)}
  /\ UNCHANGED <<include_patterns, exclude_patterns, data>>

\* Code2PromptSession::include_file
include_file(path) ==
  LET rel_path == StripPrefix(path)
  IN  /\ explicit_excludes' = explicit_excludes \ {rel_path}
      /\ explicit_includes' = explicit_includes \cup {rel_path}
      /\ UNCHANGED <<include_patterns, exclude_patterns, data>>

\* exclude_file without the removal from explicit_includes.
exclude_file_KeepsInclude(path) ==
  /\ explicit_excludes' = explicit_excludes \cup {StripPrefix(path)}
  /\ UNCHANGED <<explicit_includes, include_patterns, exclude_patterns, data>>

\* Code2PromptSession::exclude_file
exclude_file(path) ==
  LET rel_path == StripPrefix(path)
  IN  /\ explicit_includes' = explicit_includes \ {rel_path}
      /\ explicit_excludes' = explicit_excludes \cup {rel_path}
      /\ UNCHANGED <<include_patterns, exclude_patterns, data>>

\* toggle_file with its two branches exchanged.
toggle_file_Inverted(path) ==
  IF IsFileIncluded(path)
  THEN include_file(path)
  ELSE exclude_file(path)

\* toggle_file that excludes whatever the current decision is.
toggle_file_OnlyExcludes(path) == exclude_file(path)

\* Code2PromptSession::toggle_file
toggle_file(path) ==
  IF IsFileIncluded(path)
  THEN exclude_file(path)
  ELSE include_file(path)

\* clear_explicit_overrides that forgets explicit_excludes.
clear_explicit_overrides_OnlyIncludes ==
  /\ explicit_includes' = {}
  /\ UNCHANGED <<explicit_excludes, include_patterns, exclude_patterns, data>>

\* Code2PromptSession::clear_explicit_overrides
clear_explicit_overrides ==
  /\ explicit_includes' = {}
  /\ explicit_excludes' = {}
  /\ UNCHANGED <<include_patterns, exclude_patterns, data>>

\* Code2PromptSession::add_include_pattern
add_include_pattern(pattern) ==
  /\ include_patterns' = Append(include_patterns, pattern)
  /\ UNCHANGED <<exclude_patterns, explicit_includes, explicit_excludes, data>>

\* Code2PromptSession::add_exclude_pattern
add_exclude_pattern(pattern) ==
  /\ exclude_patterns' = Append(exclude_patterns, pattern)
  /\ UNCHANGED <<include_patterns, explicit_includes, explicit_excludes, data>>

\* Code2PromptSession::load_codebase, the traversal succeeding
load_codebase_ok ==
  /\ data' = [source_tree |-> TraverseDirectory, files |-> TraverseDirectory]
  /\ UNCHANGED configVars

\* Code2PromptSession::load_codebase, the traversal failing: `?` returns the
\* error before anything is stored.
load_codebase_err ==
  /\ UNCHANGED data
  /\ UNCHANGED configVars

\* ----------------------------------------------------------------- actions

\* The history the properties read: the call just made, and the one before it
\* as long as both were made with the same argument (two calls in a row on
\* one path).
Log(op, arg, was, ok) ==
  /\ last' = Call(op, arg, was, ok)
  /\ prev' = IF last.arg = arg /\ arg # NoArg THEN last ELSE NoCall
  /\ UNCHANGED treeVars
  /\ UNCHANGED viewVars

IncludeFile ==
  \E path \in InputPaths :
    /\ include_file(path)
    /\ Log("include_file", path, FALSE, TRUE)

ExcludeFile ==
  \E path \in InputPaths :
    /\ exclude_file(path)
    /\ Log("exclude_file", path, FALSE, TRUE)

ToggleFile ==
  \E path \in InputPaths :
    /\ toggle_file(path)
    /\ Log("toggle_file", path, IsFileIncluded(path), TRUE)

ClearExplicitOverrides ==
  /\ clear_explicit_overrides
  /\ Log("clear_explicit_overrides", NoArg, FALSE, TRUE)

AddIncludePattern ==
  \E pattern \in InputPatterns :
    /\ Len(include_patterns) < MaxPatterns
    /\ add_include_pattern(pattern)
    /\ Log("add_include_pattern", pattern, FALSE, TRUE)

AddExcludePattern ==
  \E pattern \in InputPatterns :
    /\ Len(exclude_patterns) < MaxPatterns
    /\ add_exclude_pattern(pattern)
    /\ Log("add_exclude_pattern", pattern, FALSE, TRUE)

LoadCodebase ==
  /\ load_codebase_ok
  /\ Log("load_codebase", NoArg, FALSE, TRUE)

LoadCodebaseFails ==
  /\ load_codebase_err
  /\ Log("load_codebase", NoArg, FALSE, FALSE)

\* A call of is_file_included: reads the configuration, changes nothing.
QueryFileIncluded ==
  \E path \in InputPaths :
    /\ UNCHANGED <<include_patterns, exclude_patterns, explicit_includes,
                   explicit_excludes, data>>
    /\ Log("is_file_included", path, IsFileIncluded(path), TRUE)

\* Code2PromptSession::new over a default configuration
Init ==
  /\ include_patterns = <<>>
  /\ exclude_patterns = <<>>
  /\ explicit_includes = {}
  /\ explicit_excludes = {}
  /\ data = [source_tree |-> None, files |-> None]
  /\ last = NoCall
  /\ prev = NoCall
  /\ TreeDefault
  /\ ViewDefault

Next ==
  \/ IncludeFile
  \/ ExcludeFile
  \/ ToggleFile
  \/ ClearExplicitOverrides
  \/ AddIncludePattern
  \/ AddExcludePattern
  \/ LoadCodebase
  \/ LoadCodebaseFails

Spec == Init /\ [][Next]_vars

\* Every pattern list up to the bound, and every override set over the
\* root-relative forms of the paths callers use.
PatternLists == UNION {[1..n -> InputPatterns] : n \in 0..MaxPatterns}
RelPaths == {StripPrefix(p) : p \in InputPaths}
OverrideSets == SUBSET RelPaths

\* Code2PromptSession::new over any configuration: the resolver is a function
\* of the configuration it is given, whether or not the session's own
\* operations could have produced it.
InitAnyConfig ==
  /\ include_patterns \in PatternLists
  /\ exclude_patterns \in PatternLists
  /\ explicit_includes \in OverrideSets
  /\ explicit_excludes \in OverrideSets
  /\ data = [source_tree |-> None, files |-> None]
  /\ last = NoCall
  /\ prev = NoCall
  /\ TreeDefault
  /\ ViewDefault

NextQuery == QueryFileIncluded

\* The resolver queried on every configuration.
DecideSpec == InitAnyConfig /\ [][NextQuery]_vars

\* Code2PromptSession::new over a configuration with overrides and no
\* patterns yet.
InitOverrides ==
  /\ include_patterns = <<>>
  /\ exclude_patterns = <<>>
  /\ explicit_includes \in OverrideSets
  /\ explicit_excludes \in OverrideSets
  /\ data = [source_tree |-> None, files |-> None]
  /\ last = NoCall
  /\ prev = NoCall
  /\ TreeDefault
  /\ ViewDefault

NextPattern ==
  \/ AddIncludePattern
  \/ AddExcludePattern
  \/ QueryFileIncluded

\* Pattern lists growing, with queries in between.
PatternSpec == InitOverrides /\ [][NextPattern]_vars

\* Glob strings a user submits, one of them not compiling.
SubmittedPatterns == {PatTxt, PatBad}

SubmitIncludePattern ==
  \E pattern \in SubmittedPatterns :
    /\ Len(include_patterns) < MaxPatterns
    /\ add_include_pattern(pattern)
    /\ Log("add_include_pattern", pattern, FALSE, TRUE)

SubmitExcludePattern ==
  \E pattern \in SubmittedPatterns :
    /\ Len(exclude_patterns) < MaxPatterns
    /\ add_exclude_pattern(pattern)
    /\ Log("add_exclude_pattern", pattern, FALSE, TRUE)

NextSubmit ==
  \/ SubmitIncludePattern
  \/ SubmitExcludePattern

\* Pattern submissions, valid or not.
SubmitSpec == InitOverrides /\ [][NextSubmit]_vars

\* --------------------------------------------------------------- file tree

\* Byte order of the characters file names are made of.
Alphabet == <<".", "a", "b", "c", "d", "e", "f", "r">>

CharCode(ch) == CHOOSE i \in DOMAIN Alphabet : Alphabet[i] = ch

\* str::cmp(a, b) = Less: lexicographic by bytes, a proper prefix first.
RECURSIVE NameLess(_, _)
NameLess(a, b) ==
  IF b = <<>> THEN FALSE
  ELSE IF a = <<>> THEN TRUE
  ELSE IF Head(a) # Head(b) THEN CharCode(Head(a)) < CharCode(Head(b))
  ELSE NameLess(Tail(a), Tail(b))

\* Path::file_name, or the whole path when it has none.
FileName(path) == IF path = <<>> THEN <<>> ELSE path[Len(path)]

\* FileNode::new creating nodes already selected.
FileNodeNew_Selected(path, level) ==
  [path |-> path, name |-> FileName(path), is_directory |-> IsDir(path),
   is_expanded |-> FALSE, is_selected |-> TRUE, children |-> <<>>,
   level |-> level, children_loaded |-> FALSE]

\* FileNode::new
FileNodeNew(path, level) ==
  [path |-> path, name |-> FileName(path), is_directory |-> IsDir(path),
   is_expanded |-> FALSE, is_selected |-> FALSE, children |-> <<>>,
   level |-> level, children_loaded |-> FALSE]

\* A comparator by name alone.
NodeLess_ByName(a, b) == NameLess(a.name, b.name)

\* The comparator of children.sort_by: directories first, then by name.
NodeLess(a, b) ==
  IF a.is_directory /\ ~b.is_directory THEN TRUE
  ELSE IF ~a.is_directory /\ b.is_directory THEN FALSE
  ELSE NameLess(a.name, b.name)

\* One step of the (stable) sort: x goes before the first node it is less
\* than.
RECURSIVE InsertNode(_, _)
InsertNode(sorted, x) ==
  IF sorted = <<>> THEN <<x>>
  ELSE IF NodeLess(x, Head(sorted)) THEN <<x>> \o sorted
  ELSE <<Head(sorted)>> \o InsertNode(Tail(sorted), x)

RECURSIVE SortNodes(_)
SortNodes(nodes) ==
  IF nodes = <<>> THEN <<>>
  ELSE InsertNode(SortNodes(SubSeq(nodes, 1, Len(nodes) - 1)), nodes[Len(nodes)])

\* Children created at the level of their directory.
ListedChildren_SameLevel(node) ==
  LET entries == ReadDir(node.path)
  IN  SortNodes([k \in DOMAIN entries |-> FileNodeNew(entries[k], node.level)])

\* The children built from a directory's listing: one FileNode::new per
\* entry, one level below the directory, sorted.
ListedChildren(node) ==
  LET entries == ReadDir(node.path)
  IN  SortNodes([k \in DOMAIN entries |-> FileNodeNew(entries[k], node.level + 1)])

\* set_children_selection stopping at the direct children.
SetChildrenSelection_Shallow(nodes, selected) ==
  [k \in DOMAIN nodes |-> [nodes[k] EXCEPT !.is_selected = selected]]

\* FileTreeState::set_children_selection
RECURSIVE SetChildrenSelection(_, _)
SetChildrenSelection(nodes, selected) ==
  [k \in DOMAIN nodes |->
     [nodes[k] EXCEPT
        !.is_selected = selected,
        !.children = IF @ # <<>> THEN SetChildrenSelection(@, selected) ELSE @]]

\* FileTreeState::toggle_directory_selection_recursive, the loop from node i
RECURSIVE ToggleDirectorySelectionFrom(_, _, _, _)
ToggleDirectorySelectionFrom(nodes, i, path, selected) ==
  IF i > Len(nodes) THEN nodes
  ELSE IF nodes[i].path = path
  THEN [nodes EXCEPT ![i] =
          [@ EXCEPT !.is_selected = selected,
                    !.children = SetChildrenSelection(@, selected)]]
  ELSE IF nodes[i].children # <<>>
  THEN ToggleDirectorySelectionFrom(
         [nodes EXCEPT ![i].children =
            ToggleDirectorySelectionFrom(@, 1, path, selected)],
         i + 1, path, selected)
  ELSE ToggleDirectorySelectionFrom(nodes, i + 1, path, selected)

\* FileTreeState::toggle_directory_selection_recursive
ToggleDirectorySelectionRecursive(nodes, path, selected) ==
  ToggleDirectorySelectionFrom(nodes, 1, path, selected)

\* The single-node update reaching the node's children too.
SingleSelected_WithChildren(node, selected) ==
  [node EXCEPT !.is_selected = selected,
               !.children = SetChildrenSelection(@, selected)]

\* The assignment update_single_node_selection makes to the node it finds.
SingleSelected(node, selected) == [node EXCEPT !.is_selected = selected]

\* FileTreeState::update_single_node_selection, the loop from node i
RECURSIVE UpdateSingleNodeSelectionFrom(_, _, _, _)
UpdateSingleNodeSelectionFrom(nodes, i, path, selected) ==
  IF i > Len(nodes) THEN nodes
  ELSE IF nodes[i].path = path
  THEN [nodes EXCEPT ![i] = SingleSelected(@, selected)]
  ELSE IF nodes[i].children # <<>>
  THEN UpdateSingleNodeSelectionFrom(
         [nodes EXCEPT ![i].children =
            UpdateSingleNodeSelectionFrom(@, 1, path, selected)],
         i + 1, path, selected)
  ELSE UpdateSingleNodeSelectionFrom(nodes, i + 1, path, selected)

\* FileTreeState::update_single_node_selection
UpdateSingleNodeSelection(nodes, path, selected) ==
  UpdateSingleNodeSelectionFrom(nodes, 1, path, selected)

\* The expansion target found without asking whether it is a directory.
IsExpandTarget_AnyNode(node, path) == node.path = path

\* The node set_directory_expanded acts on: the directory at path.
IsExpandTarget(node, path) == node.path = path /\ node.is_directory

\* Collapsing a directory forgetting its children.
Expanded_DropsChildren(node, expanded) ==
  IF expanded THEN [node EXCEPT !.is_expanded = TRUE]
  ELSE [node EXCEPT !.is_expanded = FALSE, !.children = <<>>,
                    !.children_loaded = FALSE]

\* The assignment set_directory_expanded makes to the node it finds.
Expanded(node, expanded) == [node EXCEPT !.is_expanded = expanded]

\* FileTreeState::set_directory_expanded, the loop from node i
RECURSIVE SetDirectoryExpandedFrom(_, _, _, _)
SetDirectoryExpandedFrom(nodes, i, path, expanded) ==
  IF i > Len(nodes) THEN nodes
  ELSE IF IsExpandTarget(nodes[i], path)
  THEN [nodes EXCEPT ![i] = Expanded(@, expanded)]
  ELSE IF nodes[i].children # <<>>
  THEN SetDirectoryExpandedFrom(
         [nodes EXCEPT ![i].children =
            SetDirectoryExpandedFrom(@, 1, path, expanded)],
         i + 1, path, expanded)
  ELSE SetDirectoryExpandedFrom(nodes, i + 1, path, expanded)

\* FileTreeState::set_directory_expanded
SetDirectoryExpanded(nodes, path, expanded) ==
  SetDirectoryExpandedFrom(nodes, 1, path, expanded)

\* A load that lists whatever node has the path, file or directory.
NeedsLoad_AnyNode(node, path) == node.path = path /\ ~node.children_loaded

\* A load that lists the directory again although it is loaded.
NeedsLoad_IgnoresLoaded(node, path) == node.path = path /\ node.is_directory

\* The node load_children_for_path lists: the directory at path, not loaded.
NeedsLoad(node, path) ==
  node.path = path /\ node.is_directory /\ ~node.children_loaded

\* A failed listing that leaves the entries read so far on the node.
LoadFailure_PartialChildren(nodes, i, io) ==
  [nodes |-> IF io = "entry_err"
             THEN [nodes EXCEPT ![i].children =
                     SubSeq(ListedChildren(nodes[i]), 1, 1)]
             ELSE nodes,
   res |-> io, reads |-> 1]

\* A listing that fails (read_dir(..)? or entry?): the error is returned
\* before the node is assigned anything.
LoadFailure(nodes, i, io) == [nodes |-> nodes, res |-> io, reads |-> 1]

\* FileTreeState::load_children_for_path, the loop from node i. The value is
\* the nodes as the call leaves them, what it returns and the number of
\* directories it listed; io is what a listing does in this call.
RECURSIVE LoadChildrenFrom(_, _, _, _)
LoadChildrenFrom(nodes, i, path, io) ==
  IF i > Len(nodes) THEN [nodes |-> nodes, res |-> "Ok", reads |-> 0]
  ELSE IF NeedsLoad(nodes[i], path)
  THEN IF io = "ok"
       THEN [nodes |-> [nodes EXCEPT ![i] =
                          [@ EXCEPT !.children = ListedChildren(nodes[i]),
                                    !.children_loaded = TRUE]],
             res |-> "Ok", reads |-> 1]
       ELSE LoadFailure(nodes, i, io)
  ELSE IF nodes[i].children # <<>>
  THEN LET sub    == LoadChildrenFrom(nodes[i].children, 1, path, io)
           nodes1 == [nodes EXCEPT ![i].children = sub.nodes]
       IN  IF sub.res # "Ok"
           THEN [nodes |-> nodes1, res |-> sub.res, reads |-> sub.reads]
           ELSE LET rest == LoadChildrenFrom(nodes1, i + 1, path, io)
                IN  [nodes |-> rest.nodes, res |-> rest.res,
                     reads |-> sub.reads + rest.reads]
  ELSE LoadChildrenFrom(nodes, i + 1, path, io)

\* FileTreeState::load_children_for_path
LoadChildrenForPath(nodes, path, io) == LoadChildrenFrom(nodes, 1, path, io)

\* ------------------------------------------------------------ tree search

\* Path::to_string_lossy of an absolute path: its components, each after a
\* '/'.
RECURSIVE PathText(_)
PathText(path) ==
  IF path = <<>> THEN <<>>
  ELSE PathText(SubSeq(path, 1, Len(path) - 1)) \o <<"/">> \o path[Len(path)]

\* char::to_lowercase on the letters texts are made of.
LowerChar(ch) ==
  CASE ch = "A" -> "a"
    [] ch = "B" -> "b"
    [] OTHER    -> ch

\* str::to_lowercase
ToLowercase(text) == [k \in DOMAIN text |-> LowerChar(text[k])]

\* str::contains(pat)
Contains(text, pat) ==
  \E k \in 0..(Len(text) - Len(pat)) : SubSeq(text, k + 1, k + Len(pat)) = pat

\* str::split(sep), sep not empty: the parts between the occurrences of sep
\* found from the left, not overlapping; cur is the part being read.
RECURSIVE SplitAcc(_, _, _)
SplitAcc(text, sep, cur) ==
  IF text = <<>> THEN <<cur>>
  ELSE IF IsPrefix(sep, text)
  THEN <<cur>> \o SplitAcc(SubSeq(text, Len(sep) + 1, Len(text)), sep, <<>>)
  ELSE SplitAcc(Tail(text), sep, Append(cur, Head(text)))

Split(text, sep) == SplitAcc(text, sep, <<>>)

\* str::trim_end_matches(ch)
RECURSIVE TrimEndMatches(_, _)
TrimEndMatches(text, ch) ==
  IF text # <<>> /\ text[Len(text)] = ch
  THEN TrimEndMatches(SubSeq(text, 1, Len(text) - 1), ch)
  ELSE text

\* str::trim_start_matches(ch)
RECURSIVE TrimStartMatches(_, _)
TrimStartMatches(text, ch) ==
  IF text # <<>> /\ Head(text) = ch
  THEN TrimStartMatches(Tail(text), ch)
  ELSE text

Star == <<"*">>
StarStar == <<"*", "*">>

\* glob_match_search applying the "**" branch whatever the number of parts.
GlobMatchSearch_AnyParts(pattern, text) ==
  IF Contains(pattern, StarStar)
  THEN LET prefix == TrimEndMatches(Split(pattern, StarStar)[1], "/")
           suffix == TrimStartMatches(Split(pattern, StarStar)[2], "/")
       IN  Contains(text, prefix) /\ Contains(text, suffix)
  ELSE IF Contains(pattern, Star)
  THEN Contains(text, Split(pattern, Star)[1]) /\ Contains(text, Split(pattern, Star)[2])
  ELSE Contains(ToLowercase(text), ToLowercase(pattern))

\* glob_match_search asking for the first part before the second.
GlobMatchSearch_Ordered(pattern, text) ==
  IF Contains(pattern, StarStar) /\ Len(Split(pattern, StarStar)) = 2
  THEN LET prefix == TrimEndMatches(Split(pattern, StarStar)[1], "/")
           suffix == TrimStartMatches(Split(pattern, StarStar)[2], "/")
       IN  Contains(text, prefix) /\ Contains(text, suffix)
  ELSE IF /\ Contains(pattern, Star) /\ ~Contains(pattern, StarStar)
          /\ Len(Split(pattern, Star)) = 2
  THEN \E k \in 0..Len(text) :
         /\ Contains(SubSeq(text, 1, k), Split(pattern, Star)[1])
         /\ Contains(SubSeq(text, k + 1, Len(text)), Split(pattern, Star)[2])
  ELSE Contains(ToLowercase(text), ToLowercase(pattern))

\* glob_match_search without the slash trimming of the "**" parts.
GlobMatchSearch_NoTrim(pattern, text) ==
  IF Contains(pattern, StarStar) /\ Len(Split(pattern, StarStar)) = 2
  THEN Contains(text, Split(pattern, StarStar)[1])
         /\ Contains(text, Split(pattern, StarStar)[2])
  ELSE IF /\ Contains(pattern, Star) /\ ~Contains(pattern, StarStar)
          /\ Len(Split(pattern, Star)) = 2
  THEN Contains(text, Split(pattern, Star)[1]) /\ Contains(text, Split(pattern, Star)[2])
  ELSE Contains(ToLowercase(text), ToLowercase(pattern))

\* FileTreeState::glob_match_search
GlobMatchSearch(pattern, text) ==
  IF Contains(pattern, StarStar) /\ Len(Split(pattern, StarStar)) = 2
  THEN LET parts  == Split(pattern, StarStar)
           prefix == TrimEndMatches(parts[1], "/")
           suffix == TrimStartMatches(parts[2], "/")
       IN  IF prefix = <<>> /\ suffix = <<>> THEN TRUE
           ELSE LET prefix_match == prefix = <<>> \/ Contains(text, prefix)
                    suffix_match == suffix = <<>> \/ Contains(text, suffix)
                IN  prefix_match /\ suffix_match
  ELSE IF /\ Contains(pattern, Star) /\ ~Contains(pattern, StarStar)
          /\ Len(Split(pattern, Star)) = 2
  THEN LET parts == Split(pattern, Star)
       IN  Contains(text, parts[1]) /\ Contains(text, parts[2])
  ELSE Contains(ToLowercase(text), ToLowercase(pattern))

\* matches_search looking at the node's name only.
MatchesSearch_NameOnly(query, node) ==
  IF query = <<>> THEN TRUE
  ELSE IF Contains(query, Star) \/ Contains(query, StarStar)
  THEN GlobMatchSearch(query, node.name)
  ELSE Contains(ToLowercase(node.name), ToLowercase(query))

\* matches_search of collect_visible_nodes: whether the node matches the
\* query.
MatchesSearch(query, node) ==
  IF query = <<>> THEN TRUE
  ELSE IF Contains(query, Star) \/ Contains(query, StarStar)
  THEN GlobMatchSearch(query, node.name)
         \/ GlobMatchSearch(query, PathText(node.path))
  ELSE Contains(ToLowercase(node.name), ToLowercase(query))
         \/ Contains(ToLowercase(PathText(node.path)), ToLowercase(query))

\* Descending into the children of matching nodes only.
Descends_OnlyIfMatched(node, matches_search) ==
  node.is_expanded /\ matches_search

\* Descending whether or not the node is expanded.
Descends_IgnoresExpanded(node, matches_search) ==
  matches_search \/ node.is_directory

\* The condition under which collect_visible_nodes goes on with the node's
\* children.
Descends(node, matches_search) ==
  node.is_expanded /\ (matches_search \/ node.is_directory)

\* FileTreeState::collect_visible_nodes, the loop from node i; visible is
\* the vector the nodes are pushed to.
RECURSIVE CollectVisibleNodes(_, _, _, _)
CollectVisibleNodes(nodes, i, query, vis) ==
  IF i > Len(nodes) THEN vis
  ELSE LET node           == nodes[i]
           matches_search == MatchesSearch(query, node)
           pushed         == IF matches_search THEN Append(vis, node.path) ELSE vis
           below          == IF Descends(node, matches_search)
                             THEN CollectVisibleNodes(node.children, 1, query, pushed)
                             ELSE pushed
       IN  CollectVisibleNodes(nodes, i + 1, query, below)

\* FileTreeState::get_visible_nodes
get_visible_nodes(nodes, query) == CollectVisibleNodes(nodes, 1, query, <<>>)

\* The root-level nodes handed to set_file_tree when browsing begins: one
\* node per entry of the root's listing, at level 0, not loaded.
RootListing ==
  LET entries == ReadDir(TRoot)
  IN  SortNodes([k \in DOMAIN entries |-> FileNodeNew(entries[k], 0)])

sessionVars == <<include_patterns, exclude_patterns, explicit_includes,
                 explicit_excludes, data, last, prev>>

\* A call that mutates the tree: the references an earlier get_visible_nodes
\* returned borrow the tree and are gone by then.
TreeLog(call) ==
  /\ tlast' = call
  /\ visible' = <<>>
  /\ UNCHANGED search_query
  /\ UNCHANGED sessionVars
  /\ UNCHANGED viewVars

Min(a, b) == IF a <= b THEN a ELSE b

\* FileTreeState::load_directory_children
LoadDirectoryChildren ==
  \E path \in TreePaths : \E io \in IoOutcomes :
    LET r == LoadChildrenForPath(file_tree, path, io)
    IN  /\ file_tree' = r.nodes
        /\ read_count' = IF r.res = "Ok" /\ r.reads > 0
                         THEN [read_count EXCEPT ![path] = Min(@ + r.reads, MaxReads)]
                         ELSE read_count
        /\ TreeLog(TreeCall("load_directory_children", path, FALSE, FALSE,
                            r.res, r.reads))

\* FileTreeState::update_node_selection
UpdateNodeSelection ==
  \E path \in TreePaths : \E selected \in BOOLEAN : \E is_directory \in BOOLEAN :
    /\ file_tree' = IF is_directory
                    THEN ToggleDirectorySelectionRecursive(file_tree, path, selected)
                    ELSE UpdateSingleNodeSelection(file_tree, path, selected)
    /\ UNCHANGED read_count
    /\ TreeLog(TreeCall("update_node_selection", path, selected, is_directory,
                        "Ok", 0))

\* FileTreeState::expand_directory
ExpandDirectory ==
  \E path \in TreePaths :
    /\ file_tree' = SetDirectoryExpanded(file_tree, path, TRUE)
    /\ UNCHANGED read_count
    /\ TreeLog(TreeCall("expand_directory", path, FALSE, FALSE, "Ok", 0))

\* FileTreeState::collapse_directory
CollapseDirectory ==
  \E path \in TreePaths :
    /\ file_tree' = SetDirectoryExpanded(file_tree, path, FALSE)
    /\ UNCHANGED read_count
    /\ TreeLog(TreeCall("collapse_directory", path, FALSE, FALSE, "Ok", 0))

\* FileTreeState::set_file_tree with the root listing, on a fresh session.
TreeInit ==
  /\ include_patterns = <<>>
  /\ exclude_patterns = <<>>
  /\ explicit_includes = {}
  /\ explicit_excludes = {}
  /\ data = [source_tree |-> None, files |-> None]
  /\ last = NoCall
  /\ prev = NoCall
  /\ file_tree = RootListing
  /\ read_count = [p \in TreePaths |-> 0]
  /\ tlast = NoTreeCall
  /\ search_query = <<>>
  /\ visible = <<>>
  /\ ViewDefault

TreeNext ==
  \/ LoadDirectoryChildren
  \/ UpdateNodeSelection
  \/ ExpandDirectory
  \/ CollapseDirectory

\* The tree browsed: lazy loads, selection, expansion.
TreeSpec == TreeInit /\ [][TreeNext]_vars

\* FileTreeState::get_visible_nodes (&self: the state is only read)
GetVisibleNodes ==
  /\ visible' = get_visible_nodes(file_tree, search_query)
  /\ tlast' = TreeCall("get_visible_nodes", <<>>, FALSE, FALSE, "Ok", 0)
  /\ UNCHANGED <<file_tree, read_count, search_query>>
  /\ UNCHANGED sessionVars
  /\ UNCHANGED viewVars

\* The queries typed while the tree is browsed: none, "**", "e/**".
VisibleQueries == {<<>>, <<"*", "*">>, <<"e", "/", "*", "*">>}

VisibleInit ==
  /\ include_patterns = <<>>
  /\ exclude_patterns = <<>>
  /\ explicit_includes = {}
  /\ explicit_excludes = {}
  /\ data = [source_tree |-> None, files |-> None]
  /\ last = NoCall
  /\ prev = NoCall
  /\ file_tree = RootListing
  /\ read_count = [p \in TreePaths |-> 0]
  /\ tlast = NoTreeCall
  /\ search_query \in VisibleQueries
  /\ visible = <<>>
  /\ ViewDefault

VisibleNext ==
  \/ LoadDirectoryChildren
  \/ UpdateNodeSelection
  \/ ExpandDirectory
  \/ CollapseDirectory
  \/ GetVisibleNodes

\* The tree browsed under a search query and displayed.
VisibleSpec == VisibleInit /\ [][VisibleNext]_vars

\* The characters search queries are typed with.
QueryChars == {"a", "b", "A", "*", "/"}

SearchQueries == UNION {[1..n -> QueryChars] : n \in 0..MaxQueryLen}

\* File names the matcher is tried on.
SearchNames ==
  { <<"a", "b">>, <<"b", "a">>, <<"A", "b">>, <<"b">>,
    <<"a", "*", "b">>, <<"A", "*", "b", "*">>, <<"*", "*", "*", "*">> }

\* A forest of one file under the root, and any query.
SearchInit ==
  /\ include_patterns = <<>>
  /\ exclude_patterns = <<>>
  /\ explicit_includes = {}
  /\ explicit_excludes = {}
  /\ data = [source_tree |-> None, files |-> None]
  /\ last = NoCall
  /\ prev = NoCall
  /\ \E name \in SearchNames : file_tree = <<FileNodeNew(TRoot \o <<name>>, 0)>>
  /\ read_count = [p \in TreePaths |-> 0]
  /\ tlast = NoTreeCall
  /\ search_query \in SearchQueries
  /\ visible = <<>>
  /\ ViewDefault

SearchNext == GetVisibleNodes

\* The search matcher on every query and file name.
SearchSpec == SearchInit /\ [][SearchNext]_vars

\* ------------------------------------------------------------- properties

OverrideOps == {"include_file", "exclude_file", "toggle_file", "clear_explicit_overrides"}

IncludeListMatches(rel) ==
  \E i \in DOMAIN include_patterns : GlobMatch(include_patterns[i], rel)

ExcludeListMatches(rel) ==
  \E i \in DOMAIN exclude_patterns : GlobMatch(exclude_patterns[i], rel)

\* C1: started from disjoint override sets, after any sequence of include_file,
\* exclude_file, toggle_file, clear_explicit_overrides, add_include_pattern and
\* add_exclude_pattern calls no root-relative path is in both explicit_includes
\* and explicit_excludes.
C1_OverridesDisjoint == explicit_includes \cap explicit_excludes = {}

\* C1 witness: a path explicitly excluded and then explicitly included has
\* moved from one set to the other, with patterns configured as well.
C1_Witness ==
  /\ prev.op = "exclude_file"
  /\ last.op = "include_file"
  /\ StripPrefix(last.arg) \in explicit_includes
  /\ include_patterns # <<>>
  /\ exclude_patterns # <<>>

\* C2: whatever the pattern lists and explicit_includes hold, a path whose
\* root-relative form is in explicit_excludes is decided excluded by
\* is_file_included.
C2_ExplicitExcludeWins ==
  (last.op = "is_file_included" /\ StripPrefix(last.arg) \in explicit_excludes)
    => ~last.was

\* C2 witness: a query of an absolute path that is in explicit_excludes and
\* also in explicit_includes, matched by an include pattern and by no exclude
\* pattern, answered "excluded".
C2_Witness ==
  /\ last = Call("is_file_included", AbsA, FALSE, TRUE)
  /\ RelA \in explicit_excludes
  /\ RelA \in explicit_includes
  /\ IncludeListMatches(RelA)
  /\ ~ExcludeListMatches(RelA)

\* C3: whatever the pattern lists hold, a path in explicit_includes and not in
\* explicit_excludes is decided included, even when an exclude pattern matches
\* it and no include pattern does.
C3_ExplicitIncludeWins ==
  ( /\ last.op = "is_file_included"
    /\ StripPrefix(last.arg) \in explicit_includes
    /\ StripPrefix(last.arg) \notin explicit_excludes )
    => last.was

\* C3 witness: a query of a path in explicit_includes only, which an exclude
\* pattern matches and the (non-empty) include list does not, answered
\* "included".
C3_Witness ==
  /\ last = Call("is_file_included", AbsA, TRUE, TRUE)
  /\ RelA \in explicit_includes
  /\ RelA \notin explicit_excludes
  /\ include_patterns # <<>>
  /\ ~IncludeListMatches(RelA)
  /\ ExcludeListMatches(RelA)

\* C4: toggle_file is a flip: the decision for p right after toggle_file(p) is
\* the negation of the decision right before it.
C4_ToggleFlips ==
  last.op = "toggle_file" => (IsFileIncluded(last.arg) = ~last.was)

\* C4 witness: a toggle of a path that no override named and that the include
\* pattern list had decided included.
C4_Witness ==
  /\ last = Call("toggle_file", AbsA, TRUE, TRUE)
  /\ prev = NoCall
  /\ IncludeListMatches(RelA)
  /\ explicit_includes = {}
  /\ ~IsFileIncluded(AbsA)

\* C5: two toggle_file(p) calls in a row leave the decision for p as it was
\* before the first of them.
C5_DoubleToggleRestores ==
  (last.op = "toggle_file" /\ prev.op = "toggle_file")
    => (IsFileIncluded(last.arg) = prev.was)

\* C5 witness: two toggles in a row of a path the patterns exclude.
C5_Witness ==
  /\ prev = Call("toggle_file", RelB, FALSE, TRUE)
  /\ last = Call("toggle_file", RelB, TRUE, TRUE)
  /\ include_patterns # <<>>
  /\ ~IsFileIncluded(RelB)

\* The outcome of the toggle_file call a step makes, if it makes one; with the
\* scenario: include_patterns = ["*.txt"], no exclude patterns, no overrides,
\* toggle_file("a.txt") gives explicit_excludes = {"a.txt"} and an empty
\* explicit_includes.
ToggleOutcome ==
  last'.op = "toggle_file" =>
    LET rel == StripPrefix(last'.arg)
        was == IsFileIncluded(last'.arg)
    IN  /\ was  => (rel \in explicit_excludes' /\ rel \notin explicit_includes')
        /\ ~was => (rel \in explicit_includes' /\ rel \notin explicit_excludes')
        /\ ( /\ include_patterns = <<PatTxt>>
             /\ exclude_patterns = <<>>
             /\ explicit_includes = {}
             /\ explicit_excludes = {}
             /\ last'.arg = RelA )
           => (explicit_excludes' = {RelA} /\ explicit_includes' = {})

\* C6: toggle_file(p) on a path decided included puts p in explicit_excludes
\* and leaves it out of explicit_includes; on a path decided excluded it puts p
\* in explicit_includes and leaves it out of explicit_excludes (so "a.txt",
\* included by "*.txt" alone, ends as the only explicit exclude).
C6_ToggleOutcome == [][ToggleOutcome]_vars

\* C6 witness: the scenario's end state, reached by that toggle.
C6_Witness ==
  /\ last = Call("toggle_file", RelA, TRUE, TRUE)
  /\ prev = NoCall
  /\ include_patterns = <<PatTxt>>
  /\ exclude_patterns = <<>>
  /\ explicit_excludes = {RelA}
  /\ explicit_includes = {}

\* C7: include_file and exclude_file always succeed and the last call wins:
\* after include_file(p), p is in explicit_includes only; after
\* exclude_file(p), p is in explicit_excludes only; no override operation
\* returns an error, and each is always possible.
C7_LastCallWins ==
  /\ last.op = "include_file"
       => /\ StripPrefix(last.arg) \in explicit_includes
          /\ StripPrefix(last.arg) \notin explicit_excludes
  /\ last.op = "exclude_file"
       => /\ StripPrefix(last.arg) \in explicit_excludes
          /\ StripPrefix(last.arg) \notin explicit_includes
  /\ last.op \in OverrideOps => last.ok
  /\ ENABLED IncludeFile
  /\ ENABLED ExcludeFile
  /\ ENABLED ToggleFile
  /\ ENABLED ClearExplicitOverrides

\* C7 witness: include(p) followed by exclude(p) on the same path.
C7_Witness ==
  /\ prev.op = "include_file"
  /\ last.op = "exclude_file"
  /\ StripPrefix(last.arg) \in explicit_excludes
  /\ StripPrefix(last.arg) \notin explicit_includes

\* The precedence table of the resolver: the number of the first rule that
\* applies to a root-relative path, and the verdict of each rule.
RuleFor(rel, inc_pats, exc_pats, expl_inc, expl_exc) ==
  LET inc_match == \E i \in DOMAIN inc_pats : GlobMatch(inc_pats[i], rel)
      exc_match == \E i \in DOMAIN exc_pats : GlobMatch(exc_pats[i], rel)
      inc_empty == Len(inc_pats) = 0
  IN  CASE rel \in expl_exc                         -> 1
        [] rel \in expl_inc                         -> 2
        [] exc_match /\ (~inc_match \/ inc_empty)    -> 3
        [] inc_match \/ inc_empty                    -> 4
        [] OTHER                                     -> 5

RuleVerdict(rule) == rule \in {2, 4}

\* C8: is_file_included is total and equals the five-rule precedence table
\* for every path, pattern lists and override sets; with include_patterns =
\* ["*.txt"] and nothing else, "a.txt" is included and "b.log" is not.
C8_DecideIsTable ==
  last.op = "is_file_included" =>
    /\ last.ok
    /\ last.was \in BOOLEAN
    /\ last.was = RuleVerdict(RuleFor(StripPrefix(last.arg), include_patterns,
                                      exclude_patterns, explicit_includes,
                                      explicit_excludes))
    /\ ( /\ include_patterns = <<PatTxt>>
         /\ exclude_patterns = <<>>
         /\ explicit_includes = {}
         /\ explicit_excludes = {} )
       => /\ last.arg \in {RelA, AbsA} => last.was
          /\ last.arg \in {RelB, AbsB} => ~last.was

\* C8 witness: scenario A's query of "b.log", answered "excluded" by rule 5.
C8_Witness ==
  /\ last = Call("is_file_included", RelB, FALSE, TRUE)
  /\ include_patterns = <<PatTxt>>
  /\ exclude_patterns = <<>>
  /\ explicit_includes = {}
  /\ explicit_excludes = {}

\* C9: for a path with no explicit override: matched by both an include and
\* an exclude pattern it is included; matched by an exclude pattern with an
\* empty include list it is excluded; matched by no exclude pattern with an
\* empty include list it is included.
C9_PatternPrecedence ==
  LET rel == StripPrefix(last.arg)
  IN  ( /\ last.op = "is_file_included"
        /\ rel \notin explicit_includes
        /\ rel \notin explicit_excludes )
        => /\ (IncludeListMatches(rel) /\ ExcludeListMatches(rel)) => last.was
           /\ (ExcludeListMatches(rel) /\ include_patterns = <<>>) => ~last.was
           /\ (~ExcludeListMatches(rel) /\ include_patterns = <<>>) => last.was

\* C9 witness: a query of "a.txt", without override, matched by an include
\* and by an exclude pattern, answered "included".
C9_Witness ==
  /\ last = Call("is_file_included", AbsA, TRUE, TRUE)
  /\ RelA \notin explicit_includes \cup explicit_excludes
  /\ IncludeListMatches(RelA)
  /\ ExcludeListMatches(RelA)

InFileList(f) == \E i \in DOMAIN data.files : data.files[i] = f

ClearOutcome ==
  last'.op = "clear_explicit_overrides" =>
    /\ explicit_includes' = {}
    /\ explicit_excludes' = {}
    /\ include_patterns' = include_patterns
    /\ exclude_patterns' = exclude_patterns
    /\ \A p \in InputPaths :
         IsFileIncluded(p)'
           = RuleVerdict(RuleFor(StripPrefix(p), include_patterns,
                                 exclude_patterns, {}, {}))

\* C11: clear_explicit_overrides empties both override sets and leaves the
\* pattern lists unchanged, so that afterwards every path is decided by the
\* pattern lists alone (rules 3 to 5), whatever overrides were made before.
C11_ClearRevertsToPatterns == [][ClearOutcome]_vars

\* C11 witness: overrides just cleared with patterns of both kinds
\* configured, "a.txt" decided included and "b.log" excluded by them.
C11_Witness ==
  /\ last.op = "clear_explicit_overrides"
  /\ include_patterns = <<PatTxt>>
  /\ exclude_patterns # <<>>
  /\ explicit_includes = {}
  /\ explicit_excludes = {}
  /\ ~IsFileIncluded(AbsB)
  /\ IsFileIncluded(AbsA)

\* What the claim about invalid patterns says of a step that submits one.
InvalidSubmissionRejected ==
  ( /\ last'.op \in {"add_include_pattern", "add_exclude_pattern"}
    /\ ~IsValidGlob(last'.arg) )
    => /\ ~last'.ok
       /\ include_patterns' = include_patterns
       /\ exclude_patterns' = exclude_patterns
       /\ \A p \in InputPaths : IsFileIncluded(p)' = IsFileIncluded(p)

\* C12: submitting a syntactically invalid glob pattern yields an error and
\* the prior state is preserved: the pattern lists and the decision of every
\* path are the same after the failed submission as before it.
C12_InvalidPatternRejected == [][InvalidSubmissionRejected]_vars

\* What a step that appends a pattern, or queries a path, does.
PatternStep ==
  /\ last'.op = "add_include_pattern"
       => /\ include_patterns' = Append(include_patterns, last'.arg)
          /\ UNCHANGED <<exclude_patterns, explicit_includes, explicit_excludes>>
  /\ last'.op = "add_exclude_pattern"
       => /\ exclude_patterns' = Append(exclude_patterns, last'.arg)
          /\ UNCHANGED <<include_patterns, explicit_includes, explicit_excludes>>
  /\ last'.op = "is_file_included"
       => last'.was = RuleVerdict(RuleFor(StripPrefix(last'.arg), include_patterns,
                                          exclude_patterns, explicit_includes,
                                          explicit_excludes))

\* C13: add_include_pattern / add_exclude_pattern append the pattern at the
\* end of their list (earlier patterns in order, override sets untouched), and
\* every is_file_included call decides with matchers of the pattern lists as
\* they are at the time of the call, never with an earlier matcher.
C13_NoStaleMatcher == [][PatternStep]_vars

\* C13 witness: "a.txt" queried after "*.txt" was appended behind "b*": only
\* a matcher of the list as it is now includes it.
C13_Witness ==
  /\ last = Call("is_file_included", RelA, TRUE, TRUE)
  /\ include_patterns = <<PatB, PatTxt>>
  /\ RelA \notin explicit_includes

\* ---------------------------------------------------- file tree properties

\* Every node of the tree, at every depth.
RECURSIVE NodesOf(_)
NodesOf(nodes) ==
  UNION {{nodes[k]} \cup NodesOf(nodes[k].children) : k \in DOMAIN nodes}

HasNode(nodes, path) == \E n \in NodesOf(nodes) : n.path = path

NodeAt(nodes, path) == CHOOSE n \in NodesOf(nodes) : n.path = path

\* A node without its subtree: its own fields and the paths of its children
\* in order.
Shape(n) ==
  [path |-> n.path, name |-> n.name, is_directory |-> n.is_directory,
   is_expanded |-> n.is_expanded, is_selected |-> n.is_selected,
   level |-> n.level, children_loaded |-> n.children_loaded,
   kids |-> [k \in DOMAIN n.children |-> n.children[k].path]]

Flat(nodes) == {Shape(n) : n \in NodesOf(nodes)}

TopPaths(nodes) == [k \in DOMAIN nodes |-> nodes[k].path]

\* The step is a call of load_directory_children.
LoadStep == tlast'.op = "load_directory_children"

\* C14: once a directory's listing has been read successfully, a
\* load_directory_children on its path reads nothing, returns Ok and leaves
\* the whole tree as it was; no directory's listing is read successfully more
\* than once, and no call lists more than one directory.
LoadOnce ==
  LoadStep =>
    /\ tlast'.reads <= 1
    /\ \A p \in TreePaths : read_count'[p] <= 1
    /\ read_count[tlast'.path] >= 1 =>
         /\ tlast'.reads = 0
         /\ tlast'.res = "Ok"
         /\ file_tree' = file_tree
         /\ read_count' = read_count

C14_LoadIdempotent == [][LoadOnce]_vars

\* A second load of d, made when d and the directory e below it are loaded
\* and a child of d is selected.
C14_Witness ==
  /\ tlast.op = "load_directory_children"
  /\ tlast.path = PathD
  /\ tlast.reads = 0
  /\ read_count[PathD] = 1
  /\ read_count[PathE] = 1
  /\ HasNode(file_tree, PathF)
  /\ NodeAt(file_tree, PathB).is_selected

\* C15: a load whose listing fails, at the opening or at an entry, returns
\* that IO error and changes nothing: the node stays not loaded and without
\* children, and the same load made again with a listing that succeeds reads
\* the directory and loads it.
FailedLoad ==
  (LoadStep /\ tlast'.res # "Ok") =>
    /\ tlast'.res \in {"open_err", "entry_err"}
    /\ tlast'.reads = 1
    /\ file_tree' = file_tree
    /\ read_count' = read_count
    /\ HasNode(file_tree', tlast'.path)
    /\ ~NodeAt(file_tree', tlast'.path).children_loaded
    /\ NodeAt(file_tree', tlast'.path).children = <<>>
    /\ LET retry == LoadChildrenForPath(file_tree', tlast'.path, "ok")
       IN  /\ retry.res = "Ok"
           /\ retry.reads = 1
           /\ NodeAt(retry.nodes, tlast'.path).children_loaded
           /\ NodeAt(retry.nodes, tlast'.path).children # <<>>

C15_FailedLoadChangesNothing == [][FailedLoad]_vars

\* The listing of e, a directory two levels down, has failed at an entry.
C15_Witness ==
  /\ tlast.op = "load_directory_children"
  /\ tlast.path = PathE
  /\ tlast.res = "entry_err"
  /\ HasNode(file_tree, PathE)
  /\ ~NodeAt(file_tree, PathE).children_loaded
  /\ read_count[PathE] = 0

\* C16: when update_node_selection(D, selected, is_directory = true) on a
\* directory that is not loaded is followed by a successful load of D, every
\* child the load creates is not selected and D keeps the value set.
LoadAfterSelection ==
  (/\ tlast.op = "update_node_selection"
   /\ tlast.is_directory
   /\ LoadStep
   /\ tlast'.path = tlast.path
   /\ tlast'.res = "Ok"
   /\ tlast'.reads = 1)
  => LET d == NodeAt(file_tree', tlast.path)
     IN  /\ d.is_selected = tlast.selected
         /\ d.children_loaded
         /\ d.children # <<>>
         /\ \A k \in DOMAIN d.children : ~d.children[k].is_selected

C16_NewChildrenUnselected == [][LoadAfterSelection]_vars

\* d was selected as a directory and has just been loaded.
C16_Witness ==
  /\ tlast.op = "load_directory_children"
  /\ tlast.path = PathD
  /\ tlast.res = "Ok"
  /\ tlast.reads = 1
  /\ NodeAt(file_tree, PathD).is_selected
  /\ Len(NodeAt(file_tree, PathD).children) = 3
  /\ \A k \in 1..3 : ~NodeAt(file_tree, PathD).children[k].is_selected

\* C17: update_node_selection(path, v, is_directory = true) sets is_selected
\* to v on the node at path and on every loaded node below it, at every
\* depth, and changes nothing else in the tree.
DirectorySelection ==
  (tlast'.op = "update_node_selection" /\ tlast'.is_directory) =>
    /\ TopPaths(file_tree') = TopPaths(file_tree)
    /\ Flat(file_tree') =
         {IF IsPrefix(tlast'.path, r.path)
          THEN [r EXCEPT !.is_selected = tlast'.selected]
          ELSE r : r \in Flat(file_tree)}

C17_DirectorySelectionRecursive == [][DirectorySelection]_vars

\* d has been deselected as a directory: f, two levels below it, follows;
\* a, outside d, stays selected.
C17_Witness ==
  /\ tlast.op = "update_node_selection"
  /\ tlast.path = PathD
  /\ tlast.is_directory
  /\ ~tlast.selected
  /\ HasNode(file_tree, PathF)
  /\ ~NodeAt(file_tree, PathF).is_selected
  /\ NodeAt(file_tree, PathE).is_expanded
  /\ NodeAt(file_tree, PathA).is_selected

\* C18: update_node_selection(path, v, is_directory = false) sets
\* is_selected to v on the node at path only, also when that node is a
\* directory with loaded children.
SingleSelection ==
  (tlast'.op = "update_node_selection" /\ ~tlast'.is_directory) =>
    /\ TopPaths(file_tree') = TopPaths(file_tree)
    /\ Flat(file_tree') =
         {IF r.path = tlast'.path
          THEN [r EXCEPT !.is_selected = tlast'.selected]
          ELSE r : r \in Flat(file_tree)}

C18_SingleSelectionExact == [][SingleSelection]_vars

\* The loaded directory d has been selected as a single node: its children
\* are still not selected.
C18_Witness ==
  /\ tlast.op = "update_node_selection"
  /\ tlast.path = PathD
  /\ ~tlast.is_directory
  /\ tlast.selected
  /\ NodeAt(file_tree, PathD).is_selected
  /\ HasNode(file_tree, PathF)
  /\ \A p \in {PathE, PathB, PathC, PathF} : ~NodeAt(file_tree, p).is_selected

\* C19: expand_directory / collapse_directory set is_expanded of the
\* directory at path and change nothing else; on a path that names a file
\* nothing changes; an expand after a collapse of the same directory finds
\* the children it had.
ExpandCollapse ==
  /\ tlast'.op \in {"expand_directory", "collapse_directory"} =>
       /\ TopPaths(file_tree') = TopPaths(file_tree)
       /\ Flat(file_tree') =
            {IF r.path = tlast'.path /\ r.is_directory
             THEN [r EXCEPT !.is_expanded = (tlast'.op = "expand_directory")]
             ELSE r : r \in Flat(file_tree)}
       /\ ~IsDir(tlast'.path) => file_tree' = file_tree
  /\ (/\ tlast.op = "collapse_directory"
      /\ tlast'.op = "expand_directory"
      /\ tlast'.path = tlast.path
      /\ HasNode(file_tree, tlast.path)) =>
       NodeAt(file_tree', tlast.path).children = NodeAt(file_tree, tlast.path).children

C19_ExpandCollapseOnlyFlag == [][ExpandCollapse]_vars

\* d has been collapsed while e below it is expanded and loaded and b is
\* selected.
C19_Witness ==
  /\ tlast.op = "collapse_directory"
  /\ tlast.path = PathD
  /\ HasNode(file_tree, PathF)
  /\ ~NodeAt(file_tree, PathD).is_expanded
  /\ NodeAt(file_tree, PathE).is_expanded
  /\ NodeAt(file_tree, PathB).is_selected
  /\ ~NodeAt(file_tree, PathC).is_selected

\* C20: no step of load_directory_children, expand_directory,
\* collapse_directory or update_node_selection removes a node, and a loaded
\* node stays loaded with the same children in the same order.
LoadedStays ==
  /\ TopPaths(file_tree') = TopPaths(file_tree)
  /\ \A r \in Flat(file_tree) :
       \E q \in Flat(file_tree') :
         /\ q.path = r.path
         /\ r.children_loaded => (q.children_loaded /\ q.kids = r.kids)

C20_LoadedIsPermanent == [][LoadedStays]_vars

\* Every directory is loaded, d is selected and collapsed, and e has just
\* been expanded.
C20_Witness ==
  /\ tlast.op = "expand_directory"
  /\ tlast.path = PathE
  /\ HasNode(file_tree, PathF)
  /\ NodeAt(file_tree, PathD).children_loaded
  /\ NodeAt(file_tree, PathE).children_loaded
  /\ NodeAt(file_tree, PathD).is_selected
  /\ ~NodeAt(file_tree, PathD).is_expanded
  /\ TopPaths(file_tree) = <<PathD, PathA>>
  /\ TopPaths(NodeAt(file_tree, PathD).children) = <<PathE, PathB, PathC>>

\* C21: every directory node that is expanded has its children loaded.
C21_ExpandedImpliesLoaded ==
  \A n \in NodesOf(file_tree) :
    (n.is_directory /\ n.is_expanded) => n.children_loaded

\* ------------------------------------------------------- search properties

\* The state is the one get_visible_nodes returned in.
Probed == tlast.op = "get_visible_nodes"

Shown == {visible[k] : k \in DOMAIN visible}

\* Every node above the one at path is expanded.
AncestorsExpanded(nodes, path) ==
  \A n \in NodesOf(nodes) :
    (IsPrefix(n.path, path) /\ n.path # path) => n.is_expanded

\* The two texts of a node the query is tried on.
TextsOf(n) == {n.name, PathText(n.path)}

\* The query is P/** with P not empty and without '*'.
IsPrefixQuery(q) ==
  /\ Len(q) >= 4
  /\ SubSeq(q, Len(q) - 2, Len(q)) = <<"/", "*", "*">>
  /\ ~Contains(SubSeq(q, 1, Len(q) - 3), Star)

\* C22: with the query "**" get_visible_nodes lists exactly the nodes whose
\* ancestors are all expanded; with a query P/** (P not empty, without '*')
\* it lists every such node whose name or full path contains P.
C22_StarStarMatchesAll ==
  Probed =>
    /\ search_query = StarStar =>
         Shown = {n.path : n \in {m \in NodesOf(file_tree) :
                                    AncestorsExpanded(file_tree, m.path)}}
    /\ IsPrefixQuery(search_query) =>
         \A n \in NodesOf(file_tree) :
           (/\ AncestorsExpanded(file_tree, n.path)
            /\ \E text \in TextsOf(n) :
                 Contains(text, SubSeq(search_query, 1, Len(search_query) - 3)))
           => n.path \in Shown

\* Under "e/**" the expanded d (no match) is passed over and e and f, which
\* contain "e", are listed.
C22_Witness ==
  /\ Probed
  /\ search_query = <<"e", "/", "*", "*">>
  /\ visible = <<PathE, PathF>>

\* The file of a one-file forest was listed.
Matched == visible = <<file_tree[1].path>>

\* The parts the matcher splits a query with '*' into: at "**" when the
\* query has one, else at '*'.
QueryParts(q) == IF Contains(q, StarStar) THEN Split(q, StarStar) ELSE Split(q, Star)

\* C23: a query with '*' whose split does not give exactly two parts matches
\* a node exactly when its name or path contains, case-insensitively, the
\* whole query with its '*' characters.
C23_FallThroughIsLiteral ==
  (/\ Probed
   /\ Contains(search_query, Star)
   /\ Len(QueryParts(search_query)) # 2)
  => (Matched <=>
        \E text \in TextsOf(file_tree[1]) :
          Contains(ToLowercase(text), ToLowercase(search_query)))

\* The query "a*b*" (three parts) found the file "A*b*".
C23_Witness ==
  /\ Probed
  /\ search_query = <<"a", "*", "b", "*">>
  /\ file_tree[1].name = <<"A", "*", "b", "*">>
  /\ Matched

\* Which of the four cases of the search predicate a query falls in.
QueryCase(q) ==
  IF q = <<>> THEN "empty"
  ELSE IF Contains(q, StarStar) /\ Len(Split(q, StarStar)) = 2 THEN "recursive"
  ELSE IF Contains(q, Star) /\ ~Contains(q, StarStar) /\ Len(Split(q, Star)) = 2
  THEN "wildcard"
  ELSE "literal"

\* The verdict of that case on a text.
CaseVerdict(q, text) ==
  CASE QueryCase(q) = "empty" -> TRUE
    [] QueryCase(q) = "recursive" ->
         /\ Contains(text, TrimEndMatches(Split(q, StarStar)[1], "/"))
         /\ Contains(text, TrimStartMatches(Split(q, StarStar)[2], "/"))
    [] QueryCase(q) = "wildcard" ->
         Contains(text, Split(q, Star)[1]) /\ Contains(text, Split(q, Star)[2])
    [] OTHER -> Contains(ToLowercase(text), ToLowercase(q))

\* C24: a node matches exactly when its name or its full path satisfies the
\* search predicate: the empty query matches; a query with "**" and two
\* parts asks for both slash-trimmed parts; a query with a single '*' and two
\* parts asks for both parts; any other query asks for itself, case ignored.
C24_MatcherIsReference ==
  Probed =>
    (Matched <=> \E text \in TextsOf(file_tree[1]) : CaseVerdict(search_query, text))

\* The query "/**a" (prefix "/" trimmed to nothing, suffix "a") found the
\* file "ba".
C24_Witness ==
  /\ Probed
  /\ search_query = <<"/", "*", "*", "a">>
  /\ file_tree[1].name = <<"b", "a">>
  /\ Matched

\* The query has exactly one '*'.
OneStar(q) == Cardinality({k \in DOMAIN q : q[k] = "*"}) = 1

StarAt(q) == CHOOSE k \in DOMAIN q : q[k] = "*"

\* C25: a query A*B with a single '*' matches a node exactly when one of its
\* two texts contains A and contains B, wherever they are; "*" matches every
\* node.
C25_SingleStarUnordered ==
  /\ (Probed /\ OneStar(search_query)) =>
       LET k == StarAt(search_query)
           A == SubSeq(search_query, 1, k - 1)
           B == SubSeq(search_query, k + 1, Len(search_query))
       IN  Matched <=>
             \E text \in TextsOf(file_tree[1]) : Contains(text, A) /\ Contains(text, B)
  /\ (Probed /\ search_query = Star) => Matched

\* The query "a*b" found the file "ba", where b comes before a.
C25_Witness ==
  /\ Probed
  /\ search_query = <<"a", "*", "b">>
  /\ file_tree[1].name = <<"b", "a">>
  /\ Matched

\* Whether the node matches the query, by the search predicate.
NodeMatches(query, n) == \E text \in TextsOf(n) : CaseVerdict(query, text)

\* The depth-first, pre-order sequence of the matching nodes of a forest,
\* descending below the expanded nodes that match or are directories.
RECURSIVE PreOrder(_, _)
PreOrder(nodes, query) ==
  IF nodes = <<>> THEN <<>>
  ELSE LET n == Head(nodes)
       IN  (IF NodeMatches(query, n) THEN <<n.path>> ELSE <<>>)
           \o (IF n.is_expanded /\ (NodeMatches(query, n) \/ n.is_directory)
               THEN PreOrder(n.children, query) ELSE <<>>)
           \o PreOrder(Tail(nodes), query)

VisibleStep ==
  tlast'.op = "get_visible_nodes" =>
    /\ visible' = PreOrder(file_tree, search_query)
    /\ file_tree' = file_tree
    /\ read_count' = read_count
    /\ search_query' = search_query
    /\ Probed => visible' = visible

\* C26: get_visible_nodes returns the depth-first, pre-order sequence of the
\* matching nodes, descending below a node exactly when it is expanded and
\* matched or is a directory; it changes nothing, and a second call right
\* after the first returns the same sequence.
C26_VisibleIsPreOrder == [][VisibleStep]_vars

\* Everything loaded and expanded, no query: the whole tree in display
\* order.
C26_Witness ==
  /\ Probed
  /\ search_query = <<>>
  /\ visible = <<PathD, PathE, PathF, PathB, PathC, PathA>>

\* C27: a node of the tree is listed by get_visible_nodes exactly when it
\* matches the query and all its ancestors are expanded, whether or not the
\* ancestors match; with the empty query the listed nodes are those whose
\* ancestors are all expanded.
C27_VisibleIffMatchAndExpandedPath ==
  Probed =>
    /\ \A n \in NodesOf(file_tree) :
         n.path \in Shown <=>
           (NodeMatches(search_query, n) /\ AncestorsExpanded(file_tree, n.path))
    /\ Len(visible) = Cardinality(Shown)
    /\ search_query = <<>> =>
         Shown = {n.path : n \in {m \in NodesOf(file_tree) :
                                    AncestorsExpanded(file_tree, m.path)}}

\* Under "e/**": e is listed without its expanded parent d, which does not
\* match; f, which matches, is under the collapsed e and is not listed.
C27_Witness ==
  /\ Probed
  /\ search_query = <<"e", "/", "*", "*">>
  /\ HasNode(file_tree, PathF)
  /\ NodeAt(file_tree, PathD).is_expanded
  /\ ~NodeAt(file_tree, PathE).is_expanded
  /\ visible = <<PathE>>

\* The position of a path in a sequence of paths, 0 when it is not there.
PosIn(seq, path) ==
  IF \E k \in DOMAIN seq : seq[k] = path
  THEN CHOOSE k \in DOMAIN seq : seq[k] = path
  ELSE 0

SortedLoad ==
  (LoadStep /\ tlast'.res = "Ok" /\ tlast'.reads = 1) =>
    LET kids    == NodeAt(file_tree', tlast'.path).children
        entries == ReadDir(tlast'.path)
        shown   == get_visible_nodes(file_tree', <<>>)
    IN  /\ Len(kids) = Len(entries)
        /\ {kids[k].path : k \in DOMAIN kids} = {entries[k] : k \in DOMAIN entries}
        /\ \A i \in DOMAIN kids : \A j \in DOMAIN kids :
             i < j =>
               /\ kids[i].is_directory \/ ~kids[j].is_directory
               /\ kids[i].is_directory = kids[j].is_directory
                    => NameLess(kids[i].name, kids[j].name)
               /\ (PosIn(shown, kids[i].path) > 0 /\ PosIn(shown, kids[j].path) > 0)
                    => PosIn(shown, kids[i].path) < PosIn(shown, kids[j].path)

\* C28: a successful load gives the directory one child per entry of its
\* listing, directories before files and each group in ascending order of
\* name, the order get_visible_nodes shows them in.
C28_ChildrenSorted == [][SortedLoad]_vars

\* d, listed by the disk as c, e, b, has been loaded while expanded: its
\* children are e, b, c.
C28_Witness ==
  /\ tlast.op = "load_directory_children"
  /\ tlast.path = PathD
  /\ tlast.res = "Ok"
  /\ tlast.reads = 1
  /\ NodeAt(file_tree, PathD).is_expanded
  /\ TopPaths(NodeAt(file_tree, PathD).children) = <<PathE, PathB, PathC>>

\* C29: every child is one level below its parent, only loaded directories
\* have children, a node that is not loaded has none, and the children a
\* load has just created are not selected, not expanded and not loaded.
C29_TreeStructure ==
  /\ \A n \in NodesOf(file_tree) :
       /\ \A k \in DOMAIN n.children : n.children[k].level = n.level + 1
       /\ n.children # <<>> => (n.is_directory /\ n.children_loaded)
       /\ ~n.children_loaded => n.children = <<>>
  /\ (/\ tlast.op = "load_directory_children"
      /\ tlast.res = "Ok"
      /\ tlast.reads = 1) =>
       LET kids == NodeAt(file_tree, tlast.path).children
       IN  \A k \in DOMAIN kids :
             /\ ~kids[k].is_selected
             /\ ~kids[k].is_expanded
             /\ ~kids[k].children_loaded

\* e, two levels down under a selected and expanded d, has just been loaded.
C29_Witness ==
  /\ tlast.op = "load_directory_children"
  /\ tlast.path = PathE
  /\ tlast.res = "Ok"
  /\ tlast.reads = 1
  /\ NodeAt(file_tree, PathD).is_selected
  /\ NodeAt(file_tree, PathE).is_selected
  /\ NodeAt(file_tree, PathE).is_expanded
  /\ NodeAt(file_tree, PathF).level = 2

PathScoped ==
  last'.op \in {"include_file", "exclude_file", "toggle_file"} =>
    LET p == StripPrefix(last'.arg)
    IN  /\ explicit_includes' \ {p} = explicit_includes \ {p}
        /\ explicit_excludes' \ {p} = explicit_excludes \ {p}
        /\ include_patterns' = include_patterns
        /\ exclude_patterns' = exclude_patterns
        /\ \A q \in InputPaths :
             StripPrefix(q) # p => (IsFileIncluded(q)' = IsFileIncluded(q))

\* C30: include_file(p), exclude_file(p) and toggle_file(p) change the
\* membership of p (as the sets hold it, relative to the root) and of no
\* other path, leave the pattern lists alone, and so leave the decision on
\* every other path as it was.
C30_OverridesPathScoped == [][PathScoped]_vars

\* "a.txt" has just been included while "b.log" stays explicitly excluded.
C30_Witness ==
  /\ last.op = "include_file"
  /\ last.arg = AbsA
  /\ explicit_includes = {RelA}
  /\ explicit_excludes = {RelB}
  /\ ~IsFileIncluded(RelB)

\* The step is a call of a tree operation with a path.
PathStep ==
  tlast'.op \in {"update_node_selection", "expand_directory",
                 "collapse_directory", "load_directory_children"}

NoSuchNode ==
  /\ (PathStep /\ ~HasNode(file_tree, tlast'.path)) =>
       /\ file_tree' = file_tree
       /\ read_count' = read_count
       /\ LoadStep => (tlast'.res = "Ok" /\ tlast'.reads = 0)
  /\ (/\ LoadStep
      /\ HasNode(file_tree, tlast'.path)
      /\ ~NodeAt(file_tree, tlast'.path).is_directory) =>
       /\ file_tree' = file_tree
       /\ read_count' = read_count
       /\ tlast'.res = "Ok"
       /\ tlast'.reads = 0

\* C31: a tree operation on a path that names no node of the tree changes
\* nothing, and load_directory_children on such a path, or on the path of a
\* file, returns Ok without listing anything.
C31_AbsentPathIsNoOp == [][NoSuchNode]_vars

\* A load of f, which is on disk under e, made while d is loaded and
\* selected and e is not loaded.
C31_Witness ==
  /\ tlast.op = "load_directory_children"
  /\ tlast.path = PathF
  /\ tlast.res = "Ok"
  /\ tlast.reads = 0
  /\ HasNode(file_tree, PathE)
  /\ ~HasNode(file_tree, PathF)
  /\ NodeAt(file_tree, PathD).is_selected

\* ------------------------------------------------------ template variables

\* String::cmp on variable names: Less.
StrLess(a, b) ==
  (CHOOSE k \in DOMAIN VarNames : VarNames[k] = a)
    < (CHOOSE k \in DOMAIN VarNames : VarNames[k] = b)

\* One step of the (stable) Vec::sort: x goes before the first name greater
\* than it.
RECURSIVE InsertName(_, _)
InsertName(sorted, x) ==
  IF sorted = <<>> THEN <<x>>
  ELSE IF StrLess(x, Head(sorted)) THEN <<x>> \o sorted
  ELSE <<Head(sorted)>> \o InsertName(Tail(sorted), x)

RECURSIVE SortNames(_)
SortNames(names) ==
  IF names = <<>> THEN <<>>
  ELSE InsertName(SortNames(SubSeq(names, 1, Len(names) - 1)), names[Len(names)])

\* The template variables update_missing_variables pushes: those that are
\* keys of neither map, in template order.
Undefined(vs, template_variables) ==
  SelectSeq(template_variables,
            LAMBDA var : /\ var \notin DOMAIN vs.system_variables
                         /\ var \notin DOMAIN vs.user_variables)

\* update_missing_variables without the clear().
update_missing_variables_NoClear(vs, template_variables) ==
  [vs EXCEPT !.missing_variables =
     SortNames(vs.missing_variables \o Undefined(vs, template_variables))]

\* VariableState::update_missing_variables
update_missing_variables(vs, template_variables) ==
  [vs EXCEPT !.missing_variables = SortNames(Undefined(vs, template_variables))]

\* A VariableInfo.
VariableInfo(name, value, category, description) ==
  [name |-> name, value |-> value, category |-> category,
   description |-> description]

\* VariableState::get_organized_variables
get_organized_variables(vs, template_variables) ==
  LET sys  == SelectSeq(template_variables,
                        LAMBDA var : var \in DOMAIN vs.system_variables)
      usr  == SelectSeq(template_variables,
                        LAMBDA var : var \in DOMAIN vs.user_variables)
      miss == vs.missing_variables
  IN  [k \in DOMAIN sys |->
         VariableInfo(sys[k], "(system)", "System", vs.system_variables[sys[k]])]
      \o [k \in DOMAIN usr |->
            VariableInfo(usr[k], vs.user_variables[usr[k]], "User", None)]
      \o [k \in DOMAIN miss |->
            VariableInfo(miss[k], None, "Missing", "Not defined")]

\* VariableState::set_user_variable (HashMap::insert)
set_user_variable(vs, key, value) ==
  LET user == vs.user_variables
  IN  [vs EXCEPT !.user_variables =
         [n \in DOMAIN user \cup {key} |-> IF n = key THEN value ELSE user[n]]]

\* VariableState::cancel_editing
cancel_editing(vs) ==
  [vs EXCEPT !.editing_variable = None,
             !.variable_input_content = <<>>,
             !.show_variable_input = FALSE]

\* VariableState::finish_editing: the state it leaves and what it returns.
finish_editing(vs) ==
  IF vs.editing_variable # None
  THEN LET var_name == vs.editing_variable
           value    == vs.variable_input_content
           saved    == set_user_variable([vs EXCEPT !.editing_variable = None],
                                         var_name, value)
       IN  [state  |-> [saved EXCEPT !.variable_input_content = <<>>,
                                     !.show_variable_input = FALSE],
            result |-> <<var_name, value>>]
  ELSE [state |-> vs, result |-> None]

\* The characters typed into the variable input, and the values given to
\* set_user_variable.
InputChars == {"x"}

InputValues == UNION {[1..n -> InputChars] : n \in 0..MaxInputLen}

\* The template variable lists the operations are given: empty, one name,
\* names out of order, a system variable among them, a name twice.
TemplateInputs ==
  { <<>>, <<"name">>, <<"title", "name">>, <<"files", "title">>,
    <<"name", "name">> }

VarLog(call) ==
  /\ vlast' = call
  /\ UNCHANGED <<prompt_output, counts, rendered>>
  /\ UNCHANGED sessionVars
  /\ UNCHANGED treeVars

UpdateMissingVariables ==
  \E tv \in TemplateInputs :
    /\ variables' = update_missing_variables(variables, tv)
    /\ VarLog(VarCall("update_missing_variables", tv, None))

GetOrganizedVariables ==
  \E tv \in TemplateInputs :
    /\ UNCHANGED variables
    /\ VarLog(VarCall("get_organized_variables", tv,
                      get_organized_variables(variables, tv)))

SetUserVariable ==
  \E key \in VarNameSet : \E value \in InputValues :
    /\ variables' = set_user_variable(variables, key, value)
    /\ VarLog(VarCall("set_user_variable", <<>>, None))

CancelEditing ==
  /\ variables' = cancel_editing(variables)
  /\ VarLog(VarCall("cancel_editing", <<>>, None))

FinishEditing ==
  /\ variables' = finish_editing(variables).state
  /\ VarLog(VarCall("finish_editing", <<>>, finish_editing(variables).result))

\* VariableState::add_char_to_input
AddCharToInput ==
  \E c \in InputChars :
    /\ Len(variables.variable_input_content) < MaxInputLen
    /\ variables' = [variables EXCEPT !.variable_input_content = Append(@, c)]
    /\ VarLog(VarCall("add_char_to_input", <<>>, None))

\* VariableState::remove_char_from_input (String::pop)
RemoveCharFromInput ==
  /\ variables' = [variables EXCEPT !.variable_input_content =
                     IF @ = <<>> THEN @ ELSE SubSeq(@, 1, Len(@) - 1)]
  /\ VarLog(VarCall("remove_char_from_input", <<>>, None))

\* A default VariableState, the input dialog closed or opened on a variable.
VarInit ==
  /\ include_patterns = <<>>
  /\ exclude_patterns = <<>>
  /\ explicit_includes = {}
  /\ explicit_excludes = {}
  /\ data = [source_tree |-> None, files |-> None]
  /\ last = NoCall
  /\ prev = NoCall
  /\ TreeDefault
  /\ \E e \in {None} \cup VarNameSet :
       variables = [VariableStateDefault EXCEPT !.editing_variable = e,
                                                !.show_variable_input = (e # None)]
  /\ vlast = NoVarCall
  /\ prompt_output = PromptOutputDefault
  /\ counts = [selected_count |-> 0, eligible_count |-> 0]
  /\ rendered = <<>>

VarNext ==
  \/ UpdateMissingVariables
  \/ GetOrganizedVariables
  \/ SetUserVariable
  \/ CancelEditing
  \/ FinishEditing
  \/ AddCharToInput
  \/ RemoveCharFromInput

\* The template variables edited and displayed.
VarSpec == VarInit /\ [][VarNext]_vars

\* How often a name is in a list.
Occurrences(names, n) == Cardinality({k \in DOMAIN names : names[k] = n})

MissingUpdated ==
  vlast'.op = "update_missing_variables" =>
    LET tv      == vlast'.template_variables
        missing == variables'.missing_variables
    IN  /\ \A n \in VarNameSet :
             Occurrences(missing, n) =
               IF /\ n \notin DOMAIN variables.system_variables
                  /\ n \notin DOMAIN variables.user_variables
               THEN Occurrences(tv, n)
               ELSE 0
        /\ Len(missing) <= Len(tv)
        /\ \A i \in DOMAIN missing : \A j \in DOMAIN missing :
             i < j => ~StrLess(missing[j], missing[i])
        /\ variables'.system_variables = variables.system_variables
        /\ variables'.user_variables = variables.user_variables

\* C32: update_missing_variables leaves in missing_variables exactly the
\* template variables that are keys of neither system_variables nor
\* user_variables, in ascending order, whatever the list held before, and
\* leaves both maps as they were.
C32_MissingIsUndefinedSorted == [][MissingUpdated]_vars

\* Given "files", "title" while "name" has a user value: "files" is a system
\* variable and only "title" is missing.
C32_Witness ==
  /\ vlast.op = "update_missing_variables"
  /\ vlast.template_variables = <<"files", "title">>
  /\ DOMAIN variables.user_variables = {"name"}
  /\ variables.missing_variables = <<"title">>

\* C33: get_organized_variables reports each name under at most one
\* category, and never reports as Missing a name that has a user value or is
\* a system variable.
C33_OneCategoryPerName ==
  vlast.op = "get_organized_variables" =>
    /\ \A i \in DOMAIN vlast.result : \A j \in DOMAIN vlast.result :
         vlast.result[i].name = vlast.result[j].name
           => vlast.result[i].category = vlast.result[j].category
    /\ \A i \in DOMAIN vlast.result :
         vlast.result[i].category = "Missing"
           => /\ vlast.result[i].name \notin DOMAIN variables.user_variables
              /\ vlast.result[i].name \notin DOMAIN variables.system_variables

\* ----------------------------------------------------- statistics overview

\* The status line of the overview.
StatusText(po) ==
  IF po.analysis_in_progress THEN "Generating prompt..."
  ELSE IF po.analysis_error # None THEN "Analysis failed"
  ELSE IF po.generated_prompt # None THEN "Analysis complete"
  ELSE "Ready to analyze"

\* The condition of the placeholder branch.
ShowsPlaceholder(po) == po.generated_prompt = None /\ ~po.analysis_in_progress

\* StatisticsOverviewWidget::render: what is drawn. Counts that are not
\* drawn are <<>>; the token counts are the numbers handed to
\* format_number; the rate is exact for the counts drawn here.
render(po, cnt, include_len, exclude_len) ==
  IF ShowsPlaceholder(po)
  THEN [placeholder |-> TRUE,
        text |-> "No analysis data available yet. Press Enter to run analysis.",
        status |-> None, error |-> None,
        selected |-> <<>>, eligible |-> <<>>, included |-> <<>>, rate |-> <<>>,
        tokens |-> <<>>, avg |-> <<>>, patterns |-> <<>>,
        controls |-> "Enter: Go to Selection | Tab/Shift+Tab: Switch Tab"]
  ELSE [placeholder |-> FALSE,
        text |-> None,
        status |-> StatusText(po), error |-> po.analysis_error,
        selected |-> <<cnt.selected_count>>,
        eligible |-> <<cnt.eligible_count>>,
        included |-> <<po.file_count>>,
        rate |-> IF cnt.selected_count > 0 /\ cnt.eligible_count > 0
                 THEN <<(cnt.selected_count * 100) \div cnt.eligible_count>>
                 ELSE <<>>,
        tokens |-> po.token_count,
        avg |-> IF po.token_count # <<>> /\ cnt.selected_count > 0
                THEN <<po.token_count[1] \div cnt.selected_count>>
                ELSE <<>>,
        patterns |-> <<include_len, exclude_len>>,
        controls |-> "Enter: Run Analysis | <->: Switch View | Tab/Shift+Tab: Switch Tab"]

Render ==
  /\ rendered' = <<render(prompt_output, counts, Len(include_patterns),
                          Len(exclude_patterns))>>
  /\ UNCHANGED <<variables, vlast, prompt_output, counts>>
  /\ UNCHANGED sessionVars
  /\ UNCHANGED treeVars

ErrorTexts == {"read failed"}

OptionCounts == {<<>>} \cup {<<n>> : n \in 0..MaxCount}

\* Any prompt output and any counts, nothing drawn yet.
StatsInit ==
  /\ include_patterns = <<>>
  /\ exclude_patterns = <<>>
  /\ explicit_includes = {}
  /\ explicit_excludes = {}
  /\ data = [source_tree |-> None, files |-> None]
  /\ last = NoCall
  /\ prev = NoCall
  /\ TreeDefault
  /\ variables = VariableStateDefault
  /\ vlast = NoVarCall
  /\ prompt_output \in
       [generated_prompt : {None, "prompt"},
        analysis_in_progress : BOOLEAN,
        analysis_error : {None} \cup ErrorTexts,
        token_count : OptionCounts,
        file_count : 0..MaxCount]
  /\ counts \in [selected_count : 0..MaxCount, eligible_count : 0..MaxCount]
  /\ rendered = <<>>

StatsNext == Render

\* The statistics overview drawn for any prompt output.
StatsSpec == StatsInit /\ [][StatsNext]_vars

\* C34: when an analysis error is recorded and no analysis is in progress the
\* overview shows the status "Analysis failed" with the error text, whether
\* or not a prompt was generated before; the placeholder is shown only when
\* no analysis has been attempted.
C34_ErrorIsShown ==
  rendered # <<>> =>
    /\ (prompt_output.analysis_error # None /\ ~prompt_output.analysis_in_progress) =>
         /\ ~rendered[1].placeholder
         /\ rendered[1].status = "Analysis failed"
         /\ rendered[1].error = prompt_output.analysis_error
    /\ rendered[1].placeholder =>
         /\ prompt_output.generated_prompt = None
         /\ prompt_output.analysis_error = None
         /\ ~prompt_output.analysis_in_progress

====
